---- MODULE Spec2Model ----
(***************************************************************************)
(* A model of openfaas-cloud's build pipeline:                             *)
(*   - buildshiprun/handler.go : the build-deploy orchestrator (Handle),   *)
(*     its image-name validator and its deployment client;                 *)
(*   - of-builder/main.go      : the build service (build, buildHandler)   *)
(*     and its mutex-guarded build log.                                    *)
(* Strings are modelled as sequences of one-character strings, so that     *)
(* matching, trimming and case conversion are computed, not assumed.       *)
(***************************************************************************)
EXTENDS Integers, Sequences, FiniteSets, TLC

VARIABLES
    \* ---- validImage applied to one string (handler.go:366-373)
    image,        \* the string handed to validImage
    vres,         \* "none" before the call, then "accept" / "reject"
    \* ---- getImageName applied to one name (handler.go:359-364)
    rewrite,      \* prefix P, replacement Q, rest R, and the result
    \* ---- one run of the orchestrator, Handle (handler.go:32-147)
    hpc,          \* position of the run in Handle
    env,          \* the environment the process was started with
    event,        \* the eventInfo getEvent returned
    twin,         \* a second run on the same inputs and responses whose
                  \* status reporting is configured and answered on its own
    body,         \* the body of the build service's response
    imageName,    \* Handle's local imageName
    exists,       \* deployFunction's local exists
    deployErr,    \* the error deployFunction returned ("" for nil)
    auditMsg,     \* auditEvent.Message
    calls,        \* every outbound call of the run, in the order issued
    ret,          \* what Handle returned
    \* ---- the build log, buildLog (main.go:234-243)
    Line,         \* buildLog.Line
    mutex,        \* buildLog.Sync: 0 when free, else 1 + the holder
    apc,          \* per caller of Append: its position in Append
    amsg,         \* per caller of Append: the msg argument
    atmp,         \* per caller of Append: the value of b.Line it read
    \* ---- one request to the build service (main.go:64-224)
    bpc,          \* position of the request's goroutine in build / buildHandler
    benv,         \* the value of enable_lchown ("unset" when absent)
    archive,      \* the config the archive carries: [Ref]
    cfgRef,       \* cfg.Ref
    tmpdir,       \* the working directory: "none", "present", "removed"
    tmpname,      \* the name ioutil.TempDir gave it, 0 before
    dirs,         \* the directories that exist under the temp root
    other,        \* a concurrent request: where it stands and its directory
    untarOpts,    \* the TarOptions Untar was called with
    solveReq,     \* the solve request submitted to the engine
    spc,          \* the solve task: "idle", "running", "sending", "done"
    emitted,      \* the SolveStatus messages the engine has emitted
    ch,           \* the unbuffered channel ch: <<>> or the message being handed over
    chClosed,     \* ch has been closed
    dpc,          \* the drain task: "idle", "recv", "append", "appending", "done"
    pending,      \* lines of the received message not appended yet
    raised,       \* the errors the group's tasks returned, in the order returned
    egErr,        \* errgroup: the error the group keeps
    ctxDone,      \* errgroup: the group's context has been cancelled
    egRunning,    \* errgroup: tasks started and not yet returned
    bret,         \* what build returned: [dt, err]
    resp,         \* the HTTP response written
    \* ---- the build service process, main (main.go:30-62)
    mpc,          \* position of main
    menv,         \* the value of enable_lchown main finds
    lchownFlag,   \* the package variable lchownEnabled
    sig,          \* the external cancellation signal has arrived
    sctx,         \* the group's context is done
    wpc,          \* the shutdown watcher (main.go:50-53)
    lpc,          \* the accept loop, server.ListenAndServe (main.go:55-57)
    shutting,     \* server.Shutdown has been called
    conns,        \* connections being served
    sgErr,        \* the first error a task of the group returned
    sgRunning,    \* tasks of the group that have not returned
    \* ---- one webhook delivery, github-event Handle (part_000:23-172)
    gpc,          \* position of the delivery in Handle
    gin,          \* the delivery: headers, payload, configuration
    gcalls,       \* the outbound calls made so far, in order
    greqs,        \* the GarbageRequests handed to garbageCollect
    gi,           \* the request garbageCollect's loop stands at
    gret          \* what Handle returned

rewriteVars == <<rewrite>>

validVars == <<image, vres>>
handleVars == <<hpc, env, event, twin, body, imageName, exists, deployErr, auditMsg, calls, ret>>

logVars == <<Line, mutex, apc, amsg, atmp>>
buildVars == <<bpc, benv, archive, cfgRef, tmpdir, tmpname, dirs, other, untarOpts, solveReq, spc, emitted,
               ch, chClosed, dpc, pending, raised, egErr, ctxDone, egRunning, bret, resp>>

serverVars == <<mpc, menv, lchownFlag, sig, sctx, wpc, lpc, shutting, conns, sgErr, sgRunning>>

hookVars == <<gpc, gin, gcalls, greqs, gi, gret>>

vars == <<validVars, rewriteVars, handleVars, logVars, buildVars, serverVars, hookVars>>

(***************************************************************************)
(* Bounds of the model.                                                    *)
(***************************************************************************)
MaxImageLen == 5
NumProducers == 4     \* concurrent callers of Append besides the drain task
MaxEvents == 2        \* SolveStatus messages one solve emits at most
MaxSecrets == 2       \* secret names one trigger carries at most
MaxPrefixLen == 2     \* length of a registry prefix given to getImageName
MaxRestLen == 3       \* length of what follows the prefix in an image name
MaxDirs == 2          \* directory names the temp root can hold
MaxConns == 2         \* connections the server serves at a time
MaxRepos == 2         \* repositories one installation event removes at most

(***************************************************************************)
(* Characters.  Every class of the validator's pattern has a member, and   *)
(* " " stands for any character outside all classes.                       *)
(***************************************************************************)
LowerChars == {"a", "b", "c", "s", "t", "v"}
UpperChars == {"A", "B", "C", "S", "T", "V"}
DigitChars == {"0", "1", "5"}
SepChars   == {".", "_", "-"}

AlnumClass    == LowerChars \cup UpperChars \cup DigitChars   \* [a-zA-Z0-9]
LowerNumClass == LowerChars \cup DigitChars                   \* [a-z0-9]

\* The characters the validator's inputs are drawn from.
ImageAlphabet == {"a", "A", "5", "-", ":", "/"}

SeqsUpTo(S, n) == UNION {[1..k -> S] : k \in 0..n}

RECURSIVE Flatten(_)
Flatten(ss) == IF ss = <<>> THEN <<>> ELSE Head(ss) \o Flatten(Tail(ss))

\* For each element of es in order, the results of F, concatenated: the order
\* in which a backtracking matcher tries the continuations.
FlatMap(F(_), es) == Flatten([i \in 1..Len(es) |-> F(es[i])])

(***************************************************************************)
(* imageValidator, handler.go:28.  Each operator maps a start position p   *)
(* (the index of the next character to read) to the sequence of positions  *)
(* at which a match of the sub-pattern may end, in the matcher's           *)
(* leftmost-first preference order (greedy: longer repetitions first).     *)
(*   component := [a-zA-Z0-9]+(?:[._-][a-z0-9]+)*                          *)
(*   pattern   := (?:component(?::[0-9]+)?/component/)*component           *)
(***************************************************************************)
RECURSIVE RunLen(_, _, _)
RunLen(s, p, class) ==
    IF p <= Len(s) /\ s[p] \in class THEN 1 + RunLen(s, p + 1, class) ELSE 0

\* class+ , greedy: the longest run first, then shorter ones, at least one.
PlusEnds(s, p, class) ==
    LET n == RunLen(s, p, class) IN [i \in 1..n |-> p + n + 1 - i]

\* (?:[._-][a-z0-9]+)* , greedy
RECURSIVE SepGroupStarEnds(_, _)
SepGroupStarEnds(s, p) ==
    (IF p <= Len(s) /\ s[p] \in SepChars
       THEN FlatMap(LAMBDA e : SepGroupStarEnds(s, e), PlusEnds(s, p + 1, LowerNumClass))
       ELSE <<>>)
    \o <<p>>

ComponentEnds(s, p) ==
    FlatMap(LAMBDA e : SepGroupStarEnds(s, e), PlusEnds(s, p, AlnumClass))

\* (?::[0-9]+)? , greedy
PortOptEnds(s, p) ==
    (IF p <= Len(s) /\ s[p] = ":" THEN PlusEnds(s, p + 1, DigitChars) ELSE <<>>)
    \o <<p>>

SlashEnds(s, p) == IF p <= Len(s) /\ s[p] = "/" THEN <<p + 1>> ELSE <<>>

\* component(?::[0-9]+)?/component/
PairEnds(s, p) ==
    FlatMap(LAMBDA e4 : SlashEnds(s, e4),
      FlatMap(LAMBDA e3 : ComponentEnds(s, e3),
        FlatMap(LAMBDA e2 : SlashEnds(s, e2),
          FlatMap(LAMBDA e1 : PortOptEnds(s, e1),
            ComponentEnds(s, p)))))

\* (?: pair )* , greedy
RECURSIVE PairStarEnds(_, _)
PairStarEnds(s, p) ==
    FlatMap(LAMBDA e : PairStarEnds(s, e), PairEnds(s, p)) \o <<p>>

imageValidator(s, p) ==
    FlatMap(LAMBDA e : ComponentEnds(s, e), PairStarEnds(s, p))

\* regexp.FindString: the text of the leftmost match, "" when there is none.
FindString(s) ==
    LET starts == {p \in 1..(Len(s) + 1) : imageValidator(s, p) # <<>>}
    IN  IF starts = {} THEN <<>>
        ELSE LET p == CHOOSE q \in starts : \A r \in starts : q <= r
             IN  SubSeq(s, p, Head(imageValidator(s, p)) - 1)

\* handler.go:366-373
validImage(s) == Len(FindString(s)) = Len(s)

(***************************************************************************)
(* The validator applied to one string.                                    *)
(***************************************************************************)
InitValid ==
    /\ image \in SeqsUpTo(ImageAlphabet, MaxImageLen)
    /\ vres = "none"

Validate ==
    /\ vres = "none"
    /\ vres' = IF validImage(image) THEN "accept" ELSE "reject"
    /\ UNCHANGED image
    /\ UNCHANGED <<rewriteVars, serverVars, hookVars, handleVars, logVars, buildVars>>

IdleValid == image = <<>> /\ vres = "none"

(***************************************************************************)
(* String helpers of the orchestrator.                                     *)
(***************************************************************************)
SpaceChars == {" ", "\n", "\t", "\r"}

\* strings.TrimSpace (handler.go:67): leading and trailing white space removed.
RECURSIVE TrimLeft(_)
TrimLeft(s) == IF s # <<>> /\ Head(s) \in SpaceChars THEN TrimLeft(Tail(s)) ELSE s

RECURSIVE TrimRight(_)
TrimRight(s) ==
    IF s # <<>> /\ s[Len(s)] \in SpaceChars THEN TrimRight(SubSeq(s, 1, Len(s) - 1)) ELSE s

TrimSpace(s) == TrimRight(TrimLeft(s))

\* strings.Index: the first position at which sub occurs in s, 0 when none.
HasAt(s, sub, i) == i + Len(sub) - 1 <= Len(s) /\ SubSeq(s, i, i + Len(sub) - 1) = sub

Index(s, sub) ==
    LET at == {i \in 1..(Len(s) + 1) : HasAt(s, sub, i)}
    IN  IF at = {} THEN 0 ELSE CHOOSE i \in at : \A j \in at : i <= j

\* strings.Replace(s, old, new, 1): the first occurrence of old replaced.
ReplaceFirst(s, old, new) ==
    LET i == Index(s, old)
    IN  IF i = 0 THEN s
        ELSE SubSeq(s, 1, i - 1) \o new \o SubSeq(s, i + Len(old), Len(s))

\* strings.Replace(s, old, new, -1): every occurrence of old replaced, left
\* to right without overlap; an empty old matches before every character
\* and at the end.
RECURSIVE ReplaceAll(_, _, _)
ReplaceAll(s, old, new) ==
    IF old = <<>>
      THEN IF s = <<>> THEN new ELSE new \o <<Head(s)>> \o ReplaceAll(Tail(s), old, new)
      ELSE LET i == Index(s, old)
           IN  IF i = 0 THEN s
               ELSE SubSeq(s, 1, i - 1) \o new
                      \o ReplaceAll(SubSeq(s, i + Len(old), Len(s)), old, new)

\* A variant of getImageName that replaces every occurrence of the prefix.
getImageNameEverywhere(repositoryURL, pushRepositoryURL, name) ==
    ReplaceAll(name, pushRepositoryURL, repositoryURL)

\* handler.go:359-364
getImageName(repositoryURL, pushRepositoryURL, name) ==
    ReplaceFirst(name, pushRepositoryURL, repositoryURL)

(***************************************************************************)
(* Inputs of one run of Handle.                                            *)
(***************************************************************************)
PushPrefix == <<"b">>         \* push_repository_url, when set
RepoPrefix == <<"c">>         \* repository_url, when set
Owner      == <<"a">>         \* Http_Owner
Owners     == {Owner, <<"t">>}
Service    == <<"s">>         \* Http_Service

\* Bodies the build service may answer with.
Bodies ==
    { <<>>,                                  \* empty
      <<" ", "\n">>,                         \* white space only
      <<"b", "/", "a", "/", "s">>,           \* a reference under the push prefix
      <<"b", "/", "a", "/", "s", "\n">>,     \* the same, newline-terminated
      <<"a", "/", "s", ":", "5">>,           \* a reference with a tag
      <<"a", " ", "b">> }                    \* an error text

\* handler.go:101
ServiceValue(owner, service) == owner \o <<"-">> \o service

\* Names the serving platform may list (handler.go:402-404, function.Name).
FunctionNames ==
    { ServiceValue(Owner, Service),
      <<"t">>,
      getImageName(RepoPrefix, PushPrefix, <<"b", "/", "a", "/", "s">>) }

\* Status codes the serving platform may answer the create/update with.
StatusCodes == {199, 200, 204, 299, 300, 404, 500}

\* handler.go:87, "Unable to build image, check builder logs"
InvalidImageMsg == [kind |-> "invalidImage"]

NoErr == [kind |-> "nil"]
TransportErr == [kind |-> "transport"]
HttpErr(code) == [kind |-> "http", code |-> code]

\* Secret names a trigger may carry; the second already looks prefixed.
SecretNames == { <<"s">>, <<"a", "-", "s">> }

\* Values of Http_Secrets: text that is no JSON list, or a list of names.
SecretsValues ==
    {[parses |-> FALSE, names |-> <<>>]}
    \cup {[parses |-> TRUE, names |-> s] : s \in SeqsUpTo(SecretNames, MaxSecrets)}

Environments ==
    [ builder_url         : {<<>>, <<"u">>},
      repository_url      : {<<>>, RepoPrefix},
      push_repository_url : {<<>>, PushPrefix},
      report_status       : {"true", "false", ""},
      Http_Owner          : Owners,
      Http_Installation_id : {"7", "x"},
      Http_Secrets        : SecretsValues ]

NoEvent == [owner |-> <<>>, service |-> <<>>, secrets |-> <<>>, err |-> FALSE]

\* A variant of PrefixSecrets whose loop starts at the second name.
PrefixSecretsFromSecond(owner, names) ==
    [i \in 1..Len(names) |-> IF i = 1 THEN names[i] ELSE owner \o <<"-">> \o names[i]]

\* handler.go:192-194
PrefixSecrets(owner, names) == [i \in 1..Len(names) |-> owner \o <<"-">> \o names[i]]

\* getEvent, handler.go:149-199.  err: Http_Installation_id is no integer.
getEvent(e) ==
    [ owner   |-> e.Http_Owner,
      service |-> Service,
      secrets |-> PrefixSecrets(e.Http_Owner,
                                IF e.Http_Secrets.parses THEN e.Http_Secrets.names ELSE <<>>),
      err     |-> e.Http_Installation_id = "x" ]

InitHandle ==
    /\ hpc = "entry"
    /\ env \in Environments
    /\ event = NoEvent
    /\ twin \in [report_status : {"true", "false"}, hpc : {"entry"},
                 calls : {<<>>}, ret : {[kind |-> "none"]}]
    /\ body = <<>>
    /\ imageName = <<>>
    /\ exists = FALSE
    /\ deployErr = NoErr
    /\ auditMsg = [kind |-> "empty"]
    /\ calls = <<>>
    /\ ret = [kind |-> "none"]

IdleHandle ==
    /\ hpc = "idle"
    /\ env = [builder_url |-> <<>>, repository_url |-> <<>>,
              push_repository_url |-> <<>>, report_status |-> "",
              Http_Owner |-> Owner, Http_Installation_id |-> "7",
              Http_Secrets |-> [parses |-> FALSE, names |-> <<>>]]
    /\ event = NoEvent
    /\ twin = [report_status |-> "", hpc |-> "idle", calls |-> <<>>,
               ret |-> [kind |-> "none"]]
    /\ body = <<>>
    /\ imageName = <<>>
    /\ exists = FALSE
    /\ deployErr = NoErr
    /\ auditMsg = [kind |-> "empty"]
    /\ calls = <<>>
    /\ ret = [kind |-> "none"]

(***************************************************************************)
(* reportStatus, handler.go:307-340.  The call is recorded with what became *)
(* of it: nothing when reporting is disabled, a failed or empty token, a   *)
(* failed post, or a status created on the source-control host.            *)
(***************************************************************************)
enableStatusReporting(e) == e.report_status = "true"      \* handler.go:277-279

ReportOutcomes(e) ==
    IF ~enableStatusReporting(e) THEN {"disabled"}
    ELSE {"tokenErr", "tokenEmpty", "postErr", "posted"}

reportStatus(status, desc, statusContext, outcome) ==
    [op |-> "reportStatus", state |-> status, desc |-> desc,
     context |-> statusContext, outcome |-> outcome]

PostAudit(msg) ==
    [op |-> "audit", message |-> msg, owner |-> event.owner, source |-> "buildshiprun"]

\* A variant of AfterReport in which a failed token request ends the process.
AfterReportFatal(outcome, next) == IF outcome = "tokenErr" THEN "exited" ELSE next

\* handler.go:309-339: reportStatus returns to its caller on every path, so
\* the run goes on at the next statement whatever became of the report.
AfterReport(outcome, next) == next

(***************************************************************************)
(* Handle, handler.go:32-147, one action per outbound call or exit.        *)
(***************************************************************************)
\* The second run takes the same step of Handle on the same input: it makes
\* the call this run made, moves to the same statement, returns the same.
TwinFollows ==
    /\ twin.hpc = hpc
    /\ twin' = [twin EXCEPT !.hpc = hpc',
                            !.calls = @ \o SubSeq(calls', Len(calls) + 1, Len(calls')),
                            !.ret = ret']

\* The second run calls reportStatus with the same arguments; what becomes
\* of its report is its own.
TwinReports(status, desc, statusContext, outcome, next, value) ==
    /\ twin.hpc = hpc
    /\ twin' = [twin EXCEPT !.hpc = AfterReport(outcome, next),
                            !.calls = Append(@, reportStatus(status, desc, statusContext, outcome)),
                            !.ret = IF AfterReport(outcome, next) = "returned" THEN value ELSE @]

\* handler.go:38-41: the trigger is read; log.Panic when getEvent failed.
HGetEvent ==
    /\ hpc = "entry"
    /\ event' = getEvent(env)
    /\ hpc' = IF event'.err THEN "panicked" ELSE "start"
    /\ UNCHANGED <<env, body, imageName, exists, deployErr, auditMsg, calls, ret>>
    /\ TwinFollows
    /\ UNCHANGED <<validVars, rewriteVars, serverVars, hookVars, logVars, buildVars>>

\* A variant of AfterBuild that does not test err.
AfterBuildIgnoreErr(ok) == "built"

\* handler.go:56: a transport error ends the run in the failure branch.
AfterBuild(ok) == IF ok THEN "built" ELSE "buildErr"

\* handler.go:51-67: POST builder_url+"build".  With builder_url unset the
\* request URL has no scheme and the transport refuses it.
HBuild ==
    /\ hpc = "start"
    /\ \E ok \in BOOLEAN, b \in Bodies :
         /\ (env.builder_url = <<>>) => ~ok
         /\ ~ok => b = <<>>
         /\ calls' = Append(calls, [op |-> "build", ok |-> ok, body |-> b])
         /\ body' = b
         /\ imageName' = IF ok THEN TrimSpace(b) ELSE imageName
         /\ hpc' = AfterBuild(ok)
    /\ UNCHANGED <<env, event, exists, deployErr, auditMsg, ret>>
    /\ TwinFollows
    /\ UNCHANGED <<validVars, rewriteVars, serverVars, hookVars, logVars, buildVars>>

\* handler.go:58
HBuildErrStatus ==
    /\ hpc = "buildErr"
    /\ \E o \in ReportOutcomes(env), o2 \in ReportOutcomes(twin) :
         /\ calls' = Append(calls, reportStatus("failure", TransportErr, "BUILD", o))
         /\ hpc' = AfterReport(o, "buildErrAudit")
         /\ TwinReports("failure", TransportErr, "BUILD", o2, "buildErrAudit", ret)
    /\ UNCHANGED <<env, event, body, imageName, exists, deployErr, auditMsg, ret>>
    /\ UNCHANGED <<validVars, rewriteVars, serverVars, hookVars, logVars, buildVars>>

\* handler.go:59-61
HBuildErrAudit ==
    /\ hpc = "buildErrAudit"
    /\ auditMsg' = [kind |-> "failure", detail |-> TransportErr]
    /\ calls' = Append(calls, PostAudit(auditMsg'))
    /\ ret' = [kind |-> "message", message |-> auditMsg']
    /\ hpc' = "returned"
    /\ UNCHANGED <<env, event, body, imageName, exists, deployErr>>
    /\ TwinFollows
    /\ UNCHANGED <<validVars, rewriteVars, serverVars, hookVars, logVars, buildVars>>

\* handler.go:69-80: os.Exit(1) when either registry prefix is unset.
HCheckEnv ==
    /\ hpc = "built"
    /\ hpc' = IF Len(env.repository_url) = 0 \/ Len(env.push_repository_url) = 0
                THEN "exited" ELSE "validate"
    /\ UNCHANGED <<env, event, body, imageName, exists, deployErr, auditMsg, calls, ret>>
    /\ TwinFollows
    /\ UNCHANGED <<validVars, rewriteVars, serverVars, hookVars, logVars, buildVars>>

\* handler.go:86 and 95: the validator's verdict, then the length test.
HValidate ==
    /\ hpc = "validate"
    /\ hpc' = IF ~validImage(imageName) THEN "invalid"
              ELSE IF Len(imageName) > 0 THEN "deploy" ELSE "audit"
    /\ UNCHANGED <<env, event, body, imageName, exists, deployErr, auditMsg, calls, ret>>
    /\ TwinFollows
    /\ UNCHANGED <<validVars, rewriteVars, serverVars, hookVars, logVars, buildVars>>

\* handler.go:87-88
HInvalidStatus ==
    /\ hpc = "invalid"
    /\ \E o \in ReportOutcomes(env), o2 \in ReportOutcomes(twin) :
         /\ calls' = Append(calls, reportStatus("failure", InvalidImageMsg, "DEPLOY", o))
         /\ hpc' = AfterReport(o, "invalidFatal")
         /\ TwinReports("failure", InvalidImageMsg, "DEPLOY", o2, "invalidFatal", ret)
    /\ UNCHANGED <<env, event, body, imageName, exists, deployErr, auditMsg, ret>>
    /\ UNCHANGED <<validVars, rewriteVars, serverVars, hookVars, logVars, buildVars>>

\* handler.go:89: log.Fatal prints and exits the process; lines 90-92 never run.
HInvalidFatal ==
    /\ hpc = "invalidFatal"
    /\ hpc' = "exited"
    /\ UNCHANGED <<env, event, body, imageName, exists, deployErr, auditMsg, calls, ret>>
    /\ TwinFollows
    /\ UNCHANGED <<validVars, rewriteVars, serverVars, hookVars, logVars, buildVars>>

\* handler.go:110-128: the deployment descriptor.
Deployment(ev, img) ==
    [ Service |-> ServiceValue(ev.owner, ev.service),
      Image   |-> img,
      Network |-> "func_functions",
      Labels  |-> [ GitOwner |-> ev.owner,
                    faas_function |-> ServiceValue(ev.owner, ev.service),
                    app |-> ServiceValue(ev.owner, ev.service) ],
      Secrets |-> ev.secrets ]

\* A variant of functionExists that compares the listed name with the image.
functionExistsByImage(names, deploy) == \E function1 \in names : function1 = deploy.Image

\* handler.go:222-231: is there a listed function named as the descriptor's service?
functionExists(names, deploy) == \E function1 \in names : function1 = deploy.Service

\* handler.go:245-249
UpsertMethod(ex) == IF ex THEN "PUT" ELSE "POST"

\* Outcomes of the create/update call: the transport failed, or a response
\* with a status code came back.
UpsertOutcomes ==
    {[failed |-> TRUE, code |-> 0]} \cup {[failed |-> FALSE, code |-> c] : c \in StatusCodes}

\* handler.go:261-274: the error deployFunction returns for an outcome.
DeployError(outcome) ==
    IF outcome.failed THEN TransportErr
    ELSE IF outcome.code < 200 \/ outcome.code > 299 THEN HttpErr(outcome.code)
    ELSE NoErr

\* handler.go:96-99 and 235 (functionExists, 201-232): the image is rewritten
\* and GET system/functions is issued.  A failed call yields exists = false.
HList ==
    /\ hpc = "deploy"
    /\ imageName' = getImageName(env.repository_url, env.push_repository_url, imageName)
    /\ \E ok \in BOOLEAN, names \in SUBSET FunctionNames :
         /\ ~ok => names = {}
         /\ calls' = Append(calls, [op |-> "list", ok |-> ok, names |-> names])
         /\ exists' = (ok /\ functionExists(names, Deployment(event, imageName')))
    /\ hpc' = "upsert"
    /\ UNCHANGED <<env, event, body, deployErr, auditMsg, ret>>
    /\ TwinFollows
    /\ UNCHANGED <<validVars, rewriteVars, serverVars, hookVars, logVars, buildVars>>

\* A variant of SuccessAudit that names the image as the build service gave it.
SuccessAuditAsBuilt(img) == [kind |-> "succeeded", image |-> TrimSpace(body)]

\* handler.go:137: "buildshiprun succeeded: deployed <imageName>"
SuccessAudit(img) == [kind |-> "succeeded", image |-> img]

\* handler.go:237-275 and 130-138: PUT or POST system/functions.
HUpsert ==
    /\ hpc = "upsert"
    /\ \E outcome \in UpsertOutcomes :
         /\ calls' = Append(calls, [op |-> "upsert", method |-> UpsertMethod(exists),
                                    deploy |-> Deployment(event, imageName),
                                    outcome |-> outcome])
         /\ deployErr' = DeployError(outcome)
    /\ IF deployErr' # NoErr
         THEN /\ hpc' = "deployErr"
              /\ auditMsg' = auditMsg
         ELSE /\ hpc' = "audit"
              /\ auditMsg' = SuccessAudit(imageName)
    /\ UNCHANGED <<env, event, body, imageName, exists, ret>>
    /\ TwinFollows
    /\ UNCHANGED <<validVars, rewriteVars, serverVars, hookVars, logVars, buildVars>>

\* handler.go:133
HDeployErrStatus ==
    /\ hpc = "deployErr"
    /\ \E o \in ReportOutcomes(env), o2 \in ReportOutcomes(twin) :
         /\ calls' = Append(calls, reportStatus("failure", deployErr, "DEPLOY", o))
         /\ hpc' = AfterReport(o, "deployFatal")
         /\ TwinReports("failure", deployErr, "DEPLOY", o2, "deployFatal", ret)
    /\ UNCHANGED <<env, event, body, imageName, exists, deployErr, auditMsg, ret>>
    /\ UNCHANGED <<validVars, rewriteVars, serverVars, hookVars, logVars, buildVars>>

\* handler.go:134: log.Fatal exits the process; line 135 and what follows never run.
HDeployFatal ==
    /\ hpc = "deployFatal"
    /\ hpc' = "exited"
    /\ UNCHANGED <<env, event, body, imageName, exists, deployErr, auditMsg, calls, ret>>
    /\ TwinFollows
    /\ UNCHANGED <<validVars, rewriteVars, serverVars, hookVars, logVars, buildVars>>

\* handler.go:143
HAudit ==
    /\ hpc = "audit"
    /\ calls' = Append(calls, PostAudit(auditMsg))
    /\ hpc' = "status"
    /\ UNCHANGED <<env, event, body, imageName, exists, deployErr, auditMsg, ret>>
    /\ TwinFollows
    /\ UNCHANGED <<validVars, rewriteVars, serverVars, hookVars, logVars, buildVars>>

\* handler.go:145-146
HSuccessStatus ==
    /\ hpc = "status"
    /\ \E o \in ReportOutcomes(env), o2 \in ReportOutcomes(twin) :
         LET desc  == [kind |-> "deployedAs",
                       service |-> IF Len(imageName) > 0
                                     THEN ServiceValue(event.owner, event.service) ELSE <<>>]
             value == [kind |-> "buildStatus", body |-> body, image |-> imageName]
         IN  /\ calls' = Append(calls, reportStatus("success", desc, "DEPLOY", o))
             /\ hpc' = AfterReport(o, "returned")
             /\ ret' = IF hpc' = "returned" THEN value ELSE ret
             /\ TwinReports("success", desc, "DEPLOY", o2, "returned", value)
    /\ UNCHANGED <<env, event, body, imageName, exists, deployErr, auditMsg>>
    /\ UNCHANGED <<validVars, rewriteVars, serverVars, hookVars, logVars, buildVars>>

NextHandle ==
    \/ HGetEvent
    \/ HBuild
    \/ HBuildErrStatus
    \/ HBuildErrAudit
    \/ HCheckEnv
    \/ HValidate
    \/ HInvalidStatus
    \/ HInvalidFatal
    \/ HList
    \/ HUpsert
    \/ HDeployErrStatus
    \/ HDeployFatal
    \/ HAudit
    \/ HSuccessStatus

(***************************************************************************)
(* buildLog.Append, main.go:239-243.  Caller 0 is the drain task of a      *)
(* build request; callers 1..NumProducers are concurrent producers.        *)
(*   lock   : b.Sync.Lock()                                                *)
(*   read   : evaluate append(b.Line, msg): b.Line is read                 *)
(*   write  : b.Line = <the appended slice>                                *)
(*   unlock : b.Sync.Unlock()                                              *)
(***************************************************************************)
Drain == 0
Producers == 1..NumProducers
Callers == {Drain} \cup Producers

\* The line producer p appends.
ProducerLine(p) == [tag |-> "p", text |-> p]

\* A variant of CanLock for an Append that does not wait for the mutex.
CanLockAlways(p) == TRUE

\* sync.Mutex.Lock returns only when no one holds the mutex.
CanLock(p) == mutex = 0

AppendLock(p) ==
    /\ apc[p] = "lock"
    /\ CanLock(p)
    /\ mutex' = 1 + p
    /\ apc' = [apc EXCEPT ![p] = "read"]
    /\ UNCHANGED <<Line, amsg, atmp>>
    /\ UNCHANGED <<validVars, rewriteVars, serverVars, hookVars, handleVars, buildVars>>

AppendRead(p) ==
    /\ apc[p] = "read"
    /\ atmp' = [atmp EXCEPT ![p] = Line]
    /\ apc' = [apc EXCEPT ![p] = "write"]
    /\ UNCHANGED <<Line, mutex, amsg>>
    /\ UNCHANGED <<validVars, rewriteVars, serverVars, hookVars, handleVars, buildVars>>

AppendWrite(p) ==
    /\ apc[p] = "write"
    /\ Line' = Append(atmp[p], amsg[p])
    /\ apc' = [apc EXCEPT ![p] = "unlock"]
    /\ UNCHANGED <<mutex, amsg, atmp>>
    /\ UNCHANGED <<validVars, rewriteVars, serverVars, hookVars, handleVars, buildVars>>

AppendUnlock(p) ==
    /\ apc[p] = "unlock"
    /\ mutex' = 0
    /\ apc' = [apc EXCEPT ![p] = "returned"]
    /\ UNCHANGED <<Line, amsg, atmp>>
    /\ UNCHANGED <<validVars, rewriteVars, serverVars, hookVars, handleVars, buildVars>>

\* K producers, each about to call Append once (main.go:160-163 for the log).
InitLog ==
    /\ Line = <<>>
    /\ mutex = 0
    /\ apc = [p \in Callers |-> IF p \in Producers THEN "lock" ELSE "idle"]
    /\ amsg = [p \in Callers |-> ProducerLine(p)]
    /\ atmp = [p \in Callers |-> <<>>]

IdleLog ==
    /\ Line = <<>>
    /\ mutex = 0
    /\ apc = [p \in Callers |-> "idle"]
    /\ amsg = [p \in Callers |-> ProducerLine(p)]
    /\ atmp = [p \in Callers |-> <<>>]

NextLog ==
    \/ \E p \in Callers : AppendLock(p)
    \/ \E p \in Callers : AppendRead(p)
    \/ \E p \in Callers : AppendWrite(p)
    \/ \E p \in Callers : AppendUnlock(p)

(***************************************************************************)
(* One request to the build service: build and buildHandler, main.go.      *)
(***************************************************************************)
\* strings.ToLower (main.go:131)
LowerOf(c) ==
    CASE c = "A" -> "a" [] c = "B" -> "b" [] c = "C" -> "c"
      [] c = "S" -> "s" [] c = "T" -> "t" [] c = "V" -> "v"
      [] OTHER -> c

ToLower(s) == [i \in 1..Len(s) |-> LowerOf(s[i])]

\* Target references a config may carry (Ref), the empty one included.
Refs == { <<>>, <<"a", "/", "s">>, <<"A", "/", "S">> }

\* Values of the enable_lchown setting.
LchownSettings == {"unset", "false", "true", "0"}

\* main.go:36-41
lchownEnabled(setting) == ~(setting = "false")

BuildErr(step) == [kind |-> step]
SolveErr == BuildErr("solve")

\* SolveStatus messages the engine may emit: each carries vertexes, statuses
\* and logs (client.SolveStatus, read at main.go:166-197).
Vtx(name, started, completed) == [Name |-> name, Started |-> started, Completed |-> completed]
SolveStatuses ==
    { [Vertexes |-> <<Vtx("v1", TRUE, FALSE)>>, Statuses |-> <<>>, Logs |-> <<>>],
      [Vertexes |-> <<Vtx("v1", TRUE, TRUE)>>,
       Statuses |-> <<[ID |-> "s1"]>>,
       Logs     |-> <<[Data |-> "l1"]>>],
      [Vertexes |-> <<Vtx("v2", FALSE, FALSE)>>, Statuses |-> <<>>,
       Logs     |-> <<[Data |-> "l1"], [Data |-> "l2"]>>],
      [Vertexes |-> <<>>, Statuses |-> <<>>, Logs |-> <<>>] }

\* main.go:168-180: a completed vertex is rendered with its duration, another
\* with its start time (the current time when it has none).
VertexLine(v) ==
    [tag |-> "v:", id |-> v.Name,
     detail |-> IF v.Completed THEN "duration"
                ELSE IF v.Started THEN "started" ELSE "now"]

StatusLine(s) == [tag |-> "s:", id |-> s.ID, detail |-> "current"]     \* main.go:186
LogLine(l) == [tag |-> "l:", id |-> l.Data, detail |-> "data"]         \* main.go:193

\* A variant of RenderStatus without the loop over the statuses.
RenderStatusNoStatuses(m) ==
    [i \in 1..Len(m.Vertexes) |-> VertexLine(m.Vertexes[i])]
    \o [i \in 1..Len(m.Logs) |-> LogLine(m.Logs[i])]

\* main.go:167-197: the lines one message is rendered to, in the order appended.
RenderStatus(m) ==
    [i \in 1..Len(m.Vertexes) |-> VertexLine(m.Vertexes[i])]
    \o [i \in 1..Len(m.Statuses) |-> StatusLine(m.Statuses[i])]
    \o [i \in 1..Len(m.Logs) |-> LogLine(m.Logs[i])]

\* BuildResult, main.go:228-232.  logNil: Log is nil and serializes as null.
BuildResult(imgName, log, logNil, text, err) ==
    [ImageName |-> imgName, Log |-> log, LogNil |-> logNil,
     Status |-> [text |-> text, err |-> err]]

NilBytes == [nil |-> TRUE]
Marshal(r) == [nil |-> FALSE, result |-> r]       \* json.Marshal of a BuildResult

\* A variant of ResultImageName that returns the name the image was pushed under.
ResultImageNameLower(ref) == ToLower(ref)

\* main.go:206 and 216: the image name of the result.
ResultImageName(ref) == ref

InitBuild ==
    /\ bpc = "tempdir"
    /\ benv \in LchownSettings
    /\ archive \in [Ref : Refs]
    /\ cfgRef = <<>>
    /\ tmpdir = "none"
    /\ tmpname = 0
    /\ dirs = {}
    /\ other = [pc |-> "idle", name |-> 0]
    /\ untarOpts = [called |-> FALSE, NoLchown |-> FALSE]
    /\ solveReq = [dialed |-> FALSE, submitted |-> FALSE, name |-> <<>>]
    /\ spc = "idle"
    /\ emitted = <<>>
    /\ ch = <<>>
    /\ chClosed = FALSE
    /\ dpc = "idle"
    /\ pending = <<>>
    /\ raised = <<>>
    /\ egErr = NoErr
    /\ ctxDone = FALSE
    /\ egRunning = 0
    /\ bret = [dt |-> NilBytes, err |-> NoErr]
    /\ resp = [code |-> 0, body |-> NilBytes]

IdleBuild ==
    /\ bpc = "idle"
    /\ benv = "unset"
    /\ archive = [Ref |-> <<>>]
    /\ cfgRef = <<>>
    /\ tmpdir = "none"
    /\ tmpname = 0
    /\ dirs = {}
    /\ other = [pc |-> "idle", name |-> 0]
    /\ untarOpts = [called |-> FALSE, NoLchown |-> FALSE]
    /\ solveReq = [dialed |-> FALSE, submitted |-> FALSE, name |-> <<>>]
    /\ spc = "idle"
    /\ emitted = <<>>
    /\ ch = <<>>
    /\ chClosed = FALSE
    /\ dpc = "idle"
    /\ pending = <<>>
    /\ raised = <<>>
    /\ egErr = NoErr
    /\ ctxDone = FALSE
    /\ egRunning = 0
    /\ bret = [dt |-> NilBytes, err |-> NoErr]
    /\ resp = [code |-> 0, body |-> NilBytes]

\* Variables of the request that the steps before the solve leave alone.
solveVars == <<spc, emitted, ch, chClosed, dpc, pending, raised, egErr, ctxDone, egRunning>>

\* Names a directory under the temp root can have.
DirNames == 1..MaxDirs

\* ioutil.TempDir (main.go:87) makes a directory under a name no existing
\* entry has: the names it can return.
TempDir(existing) == DirNames \ existing

\* A variant of RemoveAll that leaves the directory in place.
RemoveAllNothing(existing, name) == existing

\* os.RemoveAll (main.go:91): the directory and what it holds are gone.
RemoveAll(existing, name) == existing \ {name}

\* main.go:91: the deferred removal, run as build returns once the
\* directory was created.
DeferredRemove ==
    /\ dirs' = IF tmpdir = "present" THEN RemoveAll(dirs, tmpname) ELSE dirs
    /\ tmpdir' = IF tmpdir = "present" /\ tmpname \notin dirs' THEN "removed" ELSE tmpdir

\* build returns (nil, err): the deferred os.RemoveAll (main.go:91) runs when
\* the directory was created.
ReturnNil(step) ==
    /\ bret' = [dt |-> NilBytes, err |-> BuildErr(step)]
    /\ DeferredRemove
    /\ bpc' = "handler"

\* main.go:87-91
BTempDir ==
    /\ bpc = "tempdir"
    /\ \/ /\ \E n \in TempDir(dirs) :
                /\ tmpname' = n
                /\ dirs' = dirs \cup {n}
          /\ tmpdir' = "present"
          /\ bpc' = "untar"
          /\ UNCHANGED bret
       \/ /\ ReturnNil("tempdir")
          /\ UNCHANGED tmpname
    /\ UNCHANGED <<benv, archive, cfgRef, untarOpts, solveReq, resp, other>>
    /\ UNCHANGED solveVars
    /\ UNCHANGED logVars
    /\ UNCHANGED <<validVars, rewriteVars, serverVars, hookVars, handleVars>>

\* main.go:92-98
BUntar ==
    /\ bpc = "untar"
    /\ untarOpts' = [called |-> TRUE, NoLchown |-> ~lchownEnabled(benv)]
    /\ \/ /\ bpc' = "readfile"
          /\ UNCHANGED <<bret, tmpdir, dirs>>
       \/ ReturnNil("untar")
    /\ UNCHANGED <<benv, archive, cfgRef, solveReq, resp, tmpname, other>>
    /\ UNCHANGED solveVars
    /\ UNCHANGED logVars
    /\ UNCHANGED <<validVars, rewriteVars, serverVars, hookVars, handleVars>>

\* main.go:100-112: the config file is read and parsed.
BReadConfig ==
    /\ bpc = "readfile"
    /\ \/ /\ cfgRef' = archive.Ref
          /\ bpc' = "refcheck"
          /\ UNCHANGED <<bret, tmpdir, dirs>>
       \/ /\ ReturnNil("readfile")
          /\ UNCHANGED cfgRef
       \/ /\ ReturnNil("unmarshal")
          /\ UNCHANGED cfgRef
    /\ UNCHANGED <<benv, archive, untarOpts, solveReq, resp, tmpname, other>>
    /\ UNCHANGED solveVars
    /\ UNCHANGED logVars
    /\ UNCHANGED <<validVars, rewriteVars, serverVars, hookVars, handleVars>>

\* A variant of RefRefused that lets every reference pass.
RefRefusedNever(ref) == FALSE

\* main.go:114: cfg.Ref == ""
RefRefused(ref) == ref = <<>>

\* main.go:114-148: the empty reference is refused, else the solve request is built.
BRefCheck ==
    /\ bpc = "refcheck"
    /\ IF RefRefused(cfgRef)
         THEN /\ ReturnNil("noref")
              /\ UNCHANGED solveReq
         ELSE /\ solveReq' = [solveReq EXCEPT !.name = ToLower(cfgRef)]
              /\ bpc' = "connect"
              /\ UNCHANGED <<bret, tmpdir, dirs>>
    /\ UNCHANGED <<benv, archive, cfgRef, untarOpts, resp, tmpname, other>>
    /\ UNCHANGED solveVars
    /\ UNCHANGED logVars
    /\ UNCHANGED <<validVars, rewriteVars, serverVars, hookVars, handleVars>>

\* main.go:150-153: client.New dials the engine and blocks until it is
\* connected or has failed.
BConnect ==
    /\ bpc = "connect"
    /\ solveReq' = [solveReq EXCEPT !.dialed = TRUE]
    /\ \/ /\ bpc' = "spawn"
          /\ UNCHANGED <<bret, tmpdir, dirs>>
       \/ ReturnNil("connect")
    /\ UNCHANGED <<benv, archive, cfgRef, untarOpts, resp, tmpname, other>>
    /\ UNCHANGED solveVars
    /\ UNCHANGED logVars
    /\ UNCHANGED <<validVars, rewriteVars, serverVars, hookVars, handleVars>>

\* main.go:154-201: the channel, the group, the log and the two tasks.
BSpawn ==
    /\ bpc = "spawn"
    /\ solveReq' = [solveReq EXCEPT !.submitted = TRUE]
    /\ spc' = "running"
    /\ dpc' = "recv"
    /\ egRunning' = 2
    /\ Line' = <<>>
    /\ mutex' = 0
    /\ bpc' = "wait"
    /\ UNCHANGED <<benv, archive, cfgRef, tmpdir, tmpname, dirs, other, untarOpts, bret, resp>>
    /\ UNCHANGED <<emitted, ch, chClosed, pending, raised, egErr, ctxDone>>
    /\ UNCHANGED <<apc, amsg, atmp>>
    /\ UNCHANGED <<validVars, rewriteVars, serverVars, hookVars, handleVars>>

reqVars == <<bpc, benv, archive, cfgRef, tmpdir, tmpname, dirs, other, untarOpts,
            solveReq, bret, resp>>

\* c.Solve (main.go:157): the engine hands a SolveStatus to the unbuffered
\* channel and blocks until the drain task has received it.
SolveSend ==
    /\ spc = "running"
    /\ Len(emitted) < MaxEvents
    /\ \E m \in SolveStatuses :
         /\ ch' = <<m>>
         /\ emitted' = Append(emitted, m)
    /\ spc' = "sending"
    /\ UNCHANGED <<chClosed, dpc, pending, raised, egErr, ctxDone, egRunning>>
    /\ UNCHANGED reqVars
    /\ UNCHANGED logVars
    /\ UNCHANGED <<validVars, rewriteVars, serverVars, hookVars, handleVars>>

\* errgroup.Group.Go: the first non-nil error is kept and cancels the context.
GroupErr(err) == IF egErr = NoErr THEN err ELSE egErr

\* c.Solve returns, with or without an error, and closes the channel; the
\* group records the task's result (main.go:156-158).
SolveReturn ==
    /\ spc = "running"
    /\ \E err \in {NoErr, SolveErr} :
         /\ egErr' = GroupErr(err)
         /\ raised' = IF err # NoErr THEN Append(raised, err) ELSE raised
         /\ ctxDone' = (ctxDone \/ err # NoErr)
    /\ chClosed' = TRUE
    /\ spc' = "done"
    /\ egRunning' = egRunning - 1
    /\ UNCHANGED <<emitted, ch, dpc, pending>>
    /\ UNCHANGED reqVars
    /\ UNCHANGED logVars
    /\ UNCHANGED <<validVars, rewriteVars, serverVars, hookVars, handleVars>>

\* main.go:166: for s := range ch, one message received.
DrainRecv ==
    /\ dpc = "recv"
    /\ ch # <<>>
    /\ pending' = RenderStatus(ch[1])
    /\ ch' = <<>>
    /\ spc' = "running"
    /\ dpc' = IF pending' = <<>> THEN "recv" ELSE "append"
    /\ UNCHANGED <<emitted, chClosed, raised, egErr, ctxDone, egRunning>>
    /\ UNCHANGED reqVars
    /\ UNCHANGED logVars
    /\ UNCHANGED <<validVars, rewriteVars, serverVars, hookVars, handleVars>>

\* main.go:181, 187, 194: build.Append(msg) is called with the next line.
DrainCall ==
    /\ dpc = "append"
    /\ apc[Drain] = "idle"
    /\ amsg' = [amsg EXCEPT ![Drain] = Head(pending)]
    /\ apc' = [apc EXCEPT ![Drain] = "lock"]
    /\ dpc' = "appending"
    /\ UNCHANGED <<Line, mutex, atmp>>
    /\ UNCHANGED <<spc, emitted, ch, chClosed, pending, raised, egErr, ctxDone, egRunning>>
    /\ UNCHANGED reqVars
    /\ UNCHANGED <<validVars, rewriteVars, serverVars, hookVars, handleVars>>

\* Append has returned: on to the message's next line, or to the next message.
DrainNext ==
    /\ dpc = "appending"
    /\ apc[Drain] = "returned"
    /\ apc' = [apc EXCEPT ![Drain] = "idle"]
    /\ pending' = Tail(pending)
    /\ dpc' = IF pending' = <<>> THEN "recv" ELSE "append"
    /\ UNCHANGED <<Line, mutex, amsg, atmp>>
    /\ UNCHANGED <<spc, emitted, ch, chClosed, raised, egErr, ctxDone, egRunning>>
    /\ UNCHANGED reqVars
    /\ UNCHANGED <<validVars, rewriteVars, serverVars, hookVars, handleVars>>

\* main.go:199-200: the channel is closed and empty, the range loop ends and
\* the task returns nil.
DrainReturn ==
    /\ dpc = "recv"
    /\ ch = <<>>
    /\ chClosed
    /\ dpc' = "done"
    /\ egRunning' = egRunning - 1
    /\ UNCHANGED <<spc, emitted, ch, chClosed, pending, raised, egErr, ctxDone>>
    /\ UNCHANGED reqVars
    /\ UNCHANGED logVars
    /\ UNCHANGED <<validVars, rewriteVars, serverVars, hookVars, handleVars>>

\* A variant of WaitReady that waits for the solve task only.
WaitReadySolveOnly == spc = "done"

\* errgroup.Group.Wait blocks until every task of the group has returned.
WaitReady == egRunning = 0

\* The lines of the result (main.go:207 and 217).
ResultLog == Line

\* main.go:203-223: eg.Wait, then the result is assembled and serialized;
\* the deferred os.RemoveAll runs as build returns.
BWait ==
    /\ bpc = "wait"
    /\ WaitReady
    /\ ctxDone' = TRUE
    /\ bret' = IF egErr # NoErr
                 THEN [dt  |-> Marshal(BuildResult(ResultImageName(cfgRef), ResultLog,
                                                   FALSE, "failure: ", egErr)),
                       err |-> egErr]
                 ELSE [dt  |-> Marshal(BuildResult(ResultImageName(cfgRef), ResultLog,
                                                   FALSE, "success", NoErr)),
                       err |-> NoErr]
    /\ DeferredRemove
    /\ bpc' = "handler"
    /\ UNCHANGED <<benv, archive, cfgRef, untarOpts, solveReq, resp, tmpname, other>>
    /\ UNCHANGED <<spc, emitted, ch, chClosed, dpc, pending, raised, egErr, egRunning>>
    /\ UNCHANGED logVars
    /\ UNCHANGED <<validVars, rewriteVars, serverVars, hookVars, handleVars>>

\* A variant of ErrorBody that writes whatever build returned (cf. main.go:79).
ErrorBodyRaw(dt, err) == dt

\* main.go:69-77: the body written for a failed build.
ErrorBody(dt, err) ==
    IF dt = NilBytes
      THEN Marshal(BuildResult(<<>>, <<>>, TRUE, "unexpected failure: ", err))
      ELSE dt

\* buildHandler, main.go:64-84
buildHandler ==
    /\ bpc = "handler"
    /\ resp' = IF bret.err # NoErr
                 THEN [code |-> 500, body |-> ErrorBody(bret.dt, bret.err)]
                 ELSE [code |-> 200, body |-> bret.dt]
    /\ bpc' = "responded"
    /\ UNCHANGED <<benv, archive, cfgRef, tmpdir, tmpname, dirs, other, untarOpts, solveReq, bret>>
    /\ UNCHANGED solveVars
    /\ UNCHANGED logVars
    /\ UNCHANGED <<validVars, rewriteVars, serverVars, hookVars, handleVars>>

\* A concurrent request enters build and makes its working directory
\* (main.go:87-91).
OtherTempDir ==
    /\ other.pc = "idle"
    /\ \E n \in TempDir(dirs) :
         /\ other' = [pc |-> "building", name |-> n]
         /\ dirs' = dirs \cup {n}
    /\ UNCHANGED <<bpc, benv, archive, cfgRef, tmpdir, tmpname, untarOpts, solveReq, bret, resp>>
    /\ UNCHANGED solveVars
    /\ UNCHANGED logVars
    /\ UNCHANGED <<validVars, rewriteVars, serverVars, hookVars, handleVars>>

\* The concurrent request returns from build: its deferred removal runs
\* (main.go:91).
OtherReturn ==
    /\ other.pc = "building"
    /\ dirs' = RemoveAll(dirs, other.name)
    /\ other' = [pc |-> "idle", name |-> 0]
    /\ UNCHANGED <<bpc, benv, archive, cfgRef, tmpdir, tmpname, untarOpts, solveReq, bret, resp>>
    /\ UNCHANGED solveVars
    /\ UNCHANGED logVars
    /\ UNCHANGED <<validVars, rewriteVars, serverVars, hookVars, handleVars>>

NextBuild ==
    \/ OtherTempDir
    \/ OtherReturn
    \/ BTempDir
    \/ BUntar
    \/ BReadConfig
    \/ BRefCheck
    \/ BConnect
    \/ BSpawn
    \/ SolveSend
    \/ SolveReturn
    \/ DrainRecv
    \/ DrainCall
    \/ AppendLock(Drain)
    \/ AppendRead(Drain)
    \/ AppendWrite(Drain)
    \/ AppendUnlock(Drain)
    \/ DrainNext
    \/ DrainReturn
    \/ BWait
    \/ buildHandler

(***************************************************************************)
(* getImageName applied to one image name made of a prefix and a rest.     *)
(***************************************************************************)
RewriteAlphabet == {"b", "/"}

InitRewrite ==
    /\ rewrite \in [ P    : SeqsUpTo(RewriteAlphabet, MaxPrefixLen),
                     Q    : SeqsUpTo({"b", "c"}, 1),
                     R    : SeqsUpTo(RewriteAlphabet, MaxRestLen),
                     done : {FALSE},
                     out  : {<<>>} ]

Rewrite ==
    /\ ~rewrite.done
    /\ rewrite' = [rewrite EXCEPT !.done = TRUE,
                                  !.out = getImageName(rewrite.Q, rewrite.P,
                                                       rewrite.P \o rewrite.R)]
    /\ UNCHANGED <<validVars, serverVars, hookVars, handleVars, logVars, buildVars>>

IdleRewrite == rewrite = [P |-> <<>>, Q |-> <<>>, R |-> <<>>, done |-> FALSE, out |-> <<>>]

(***************************************************************************)
(* The build service process: main, main.go:30-62.  Two tasks of one       *)
(* errgroup, the shutdown watcher and the accept loop, and main waiting    *)
(* for both.                                                               *)
(***************************************************************************)
ListenErr == [kind |-> "listen"]
ErrServerClosed == [kind |-> "closed"]
CloseErr == [kind |-> "close"]

\* A variant of CancelOn in which a task's error leaves the context alone.
CancelOnSignalOnly(done, err) == done

\* errgroup.WithContext (main.go:48): the context is done once its parent is
\* cancelled or a task of the group has returned a non-nil error.
CancelOn(done, err) == done \/ err # NoErr

\* errgroup.Group.Go: the first non-nil error of the group is kept.
FirstErr(err) == IF sgErr = NoErr THEN err ELSE sgErr

InitServer ==
    /\ mpc = "start"
    /\ menv \in LchownSettings
    /\ lchownFlag = FALSE
    /\ sig = FALSE
    /\ sctx = FALSE
    /\ wpc = "idle"
    /\ lpc = "idle"
    /\ shutting = FALSE
    /\ conns = 0
    /\ sgErr = NoErr
    /\ sgRunning = 0

IdleServer ==
    /\ mpc = "idle"
    /\ menv = "unset"
    /\ lchownFlag = FALSE
    /\ sig = FALSE
    /\ sctx = FALSE
    /\ wpc = "idle"
    /\ lpc = "idle"
    /\ shutting = FALSE
    /\ conns = 0
    /\ sgErr = NoErr
    /\ sgRunning = 0

otherVars == <<validVars, rewriteVars, handleVars, logVars, buildVars, hookVars>>

\* main.go:31-57: the setting is read, the server built, both tasks started.
MStart ==
    /\ mpc = "start"
    /\ lchownFlag' = lchownEnabled(menv)
    /\ wpc' = "waiting"
    /\ lpc' = "starting"
    /\ sgRunning' = 2
    /\ mpc' = "wait"
    /\ UNCHANGED <<menv, sig, sctx, shutting, conns, sgErr>>
    /\ UNCHANGED otherVars

\* appcontext.Context (main.go:48): the external signal cancels the context.
Signal ==
    /\ mpc = "wait"
    /\ ~sig
    /\ sig' = TRUE
    /\ sctx' = TRUE
    /\ UNCHANGED <<mpc, menv, lchownFlag, wpc, lpc, shutting, conns, sgErr, sgRunning>>
    /\ UNCHANGED otherVars

\* main.go:51-52: <-ctx.Done() returns and server.Shutdown is called, which
\* closes the listener at once.
WatcherWake ==
    /\ wpc = "waiting"
    /\ sctx
    /\ wpc' = "shutdown"
    /\ shutting' = TRUE
    /\ UNCHANGED <<mpc, menv, lchownFlag, sig, sctx, lpc, conns, sgErr, sgRunning>>
    /\ UNCHANGED otherVars

\* main.go:52: Shutdown returns when no connection is being served any
\* more, with the error closing the listener gave, if any.
WatcherReturn ==
    /\ wpc = "shutdown"
    /\ conns = 0
    /\ \E err \in {NoErr, CloseErr} :
         /\ sgErr' = FirstErr(err)
         /\ sctx' = CancelOn(sctx, err)
    /\ wpc' = "returned"
    /\ sgRunning' = sgRunning - 1
    /\ UNCHANGED <<mpc, menv, lchownFlag, sig, lpc, shutting, conns>>
    /\ UNCHANGED otherVars

\* main.go:56: ListenAndServe binds the address and starts accepting, or
\* returns the error of the bind, or ErrServerClosed after Shutdown.
Listen ==
    /\ lpc = "starting"
    /\ \/ /\ ~shutting
          /\ lpc' = "accepting"
          /\ UNCHANGED <<sgErr, sctx, sgRunning>>
       \/ /\ lpc' = "returned"
          /\ sgErr' = FirstErr(IF shutting THEN ErrServerClosed ELSE ListenErr)
          /\ sctx' = CancelOn(sctx, IF shutting THEN ErrServerClosed ELSE ListenErr)
          /\ sgRunning' = sgRunning - 1
    /\ UNCHANGED <<mpc, menv, lchownFlag, sig, wpc, shutting, conns>>
    /\ UNCHANGED otherVars

\* The accept loop takes a connection; a handler of its own serves it.
Accept ==
    /\ lpc = "accepting"
    /\ ~shutting
    /\ conns < MaxConns
    /\ conns' = conns + 1
    /\ UNCHANGED <<mpc, menv, lchownFlag, sig, sctx, wpc, lpc, shutting, sgErr, sgRunning>>
    /\ UNCHANGED otherVars

\* The handler of a connection returns.
ConnDone ==
    /\ conns > 0
    /\ conns' = conns - 1
    /\ UNCHANGED <<mpc, menv, lchownFlag, sig, sctx, wpc, lpc, shutting, sgErr, sgRunning>>
    /\ UNCHANGED otherVars

\* main.go:56: the accept loop fails for good.
AcceptFail ==
    /\ lpc = "accepting"
    /\ ~shutting
    /\ lpc' = "returned"
    /\ sgErr' = FirstErr(ListenErr)
    /\ sctx' = CancelOn(sctx, ListenErr)
    /\ sgRunning' = sgRunning - 1
    /\ UNCHANGED <<mpc, menv, lchownFlag, sig, wpc, shutting, conns>>
    /\ UNCHANGED otherVars

\* main.go:56: after Shutdown the accept loop returns ErrServerClosed.
ServeClosed ==
    /\ lpc = "accepting"
    /\ shutting
    /\ lpc' = "returned"
    /\ sgErr' = FirstErr(ErrServerClosed)
    /\ sctx' = CancelOn(sctx, ErrServerClosed)
    /\ sgRunning' = sgRunning - 1
    /\ UNCHANGED <<mpc, menv, lchownFlag, sig, wpc, shutting, conns>>
    /\ UNCHANGED otherVars

\* main.go:59-61: eg.Wait returns when both tasks have; a non-nil error
\* panics.  Either way the process ends.
MJoin ==
    /\ mpc = "wait"
    /\ sgRunning = 0
    /\ mpc' = IF sgErr # NoErr THEN "panicked" ELSE "returned"
    /\ sctx' = TRUE
    /\ UNCHANGED <<menv, lchownFlag, sig, wpc, lpc, shutting, conns, sgErr, sgRunning>>
    /\ UNCHANGED otherVars

NextServer ==
    \/ MStart
    \/ Signal
    \/ WatcherWake
    \/ WatcherReturn
    \/ Listen
    \/ Accept
    \/ ConnDone
    \/ AcceptFail
    \/ ServeClosed
    \/ MJoin

(***************************************************************************)
(* One webhook delivery: github-event Handle and garbageCollect,           *)
(* part_000:23-207.                                                        *)
(***************************************************************************)
\* part_000:27-30
HandledEvents == {"push", "installation_repositories", "integration_installation",
                  "installation"}
EventHeaders == HandledEvents \cup {"ping"}

\* The customer check (part_000:42-68): switched off, the list cannot be
\* fetched, the sender is not listed, the sender is listed.
CustomerChecks == {"off", "getErr", "notCustomer", "customer"}

\* The HMAC check (part_000:94-104): switched off, the webhook secret cannot
\* be read, the signature is wrong, the signature is right.
HmacChecks == {"off", "secretErr", "invalid", "valid"}

Actions == {"created", "added", "removed", "deleted", "edited"}
RepoNames == {"r", "q"}
Login == "a"

Deliveries ==
    [ eventHeader : EventHeaders,
      customers   : CustomerChecks,
      hmac        : HmacChecks,
      parses      : BOOLEAN,
      action      : Actions,
      login       : {Login},
      removed     : SeqsUpTo(RepoNames, MaxRepos) ]

\* part_000:209-213
GarbageRequest(owner, repo) == [Owner |-> owner, Repo |-> repo, Functions |-> <<>>]

\* part_000:114-167: the requests an installation event asks for.
GarbageRequests(ev) ==
    IF ev.action = "removed"
      THEN [i \in 1..Len(ev.removed) |-> GarbageRequest(ev.login, ev.removed[i])]
    ELSE IF ev.action = "deleted"
      THEN <<GarbageRequest(ev.login, "*")>>
    ELSE <<>>

GAudit(msg) == [op |-> "audit", message |-> msg]

InitHook ==
    /\ gpc = "start"
    /\ gin \in Deliveries
    /\ gcalls = <<>>
    /\ greqs = <<>>
    /\ gi = 0
    /\ gret = "none"

IdleHook ==
    /\ gpc = "idle"
    /\ gin = [eventHeader |-> "ping", customers |-> "off", hmac |-> "off", parses |-> FALSE,
              action |-> "edited", login |-> Login, removed |-> <<>>]
    /\ gcalls = <<>>
    /\ greqs = <<>>
    /\ gi = 0
    /\ gret = "none"

nonHookVars == <<validVars, rewriteVars, handleVars, logVars, buildVars, serverVars>>

\* part_000:27-40: an event of another type is audited and refused.
GCheckEvent ==
    /\ gpc = "start"
    /\ IF gin.eventHeader \notin HandledEvents
         THEN /\ gcalls' = Append(gcalls, GAudit("bad event"))
              /\ gret' = "cannot handle event"
              /\ gpc' = "returned"
         ELSE /\ gpc' = "customers"
              /\ UNCHANGED <<gcalls, gret>>
    /\ UNCHANGED <<gin, greqs, gi>>
    /\ UNCHANGED nonHookVars

\* part_000:42-68
GCustomers ==
    /\ gpc = "customers"
    /\ CASE gin.customers = "off" ->
              /\ gpc' = "dispatch"
              /\ UNCHANGED <<gcalls, gret>>
         [] gin.customers = "getErr" ->
              /\ gcalls' = Append(gcalls, [op |-> "getCustomers", ok |-> FALSE])
              /\ gret' = "customers error"
              /\ gpc' = "returned"
         [] gin.customers = "notCustomer" ->
              /\ gcalls' = gcalls \o <<[op |-> "getCustomers", ok |-> TRUE],
                                       GAudit("Customer not found")>>
              /\ gret' = "customer not found"
              /\ gpc' = "returned"
         [] gin.customers = "customer" ->
              /\ gcalls' = Append(gcalls, [op |-> "getCustomers", ok |-> TRUE])
              /\ gpc' = "dispatch"
              /\ UNCHANGED gret
    /\ UNCHANGED <<gin, greqs, gi>>
    /\ UNCHANGED nonHookVars

\* part_000:70-88 and forward, 232-270: a push is handed to github-push.
GForward ==
    /\ gpc = "dispatch"
    /\ gin.eventHeader = "push"
    /\ \E secretOk \in BOOLEAN, outcome \in {"transport", "200", "500"} :
         IF ~secretOk
           THEN /\ gcalls' = Append(gcalls, [op |-> "readSecret", ok |-> FALSE])
                /\ gret' = "secret error"
           ELSE /\ gcalls' = gcalls \o <<[op |-> "readSecret", ok |-> TRUE],
                                         [op |-> "forward", function |-> "github-push",
                                          outcome |-> outcome]>>
                                   \o (IF outcome = "transport"
                                         THEN <<GAudit("cannot post")>> ELSE <<>>)
                /\ gret' = IF outcome = "200" THEN "forwarded"
                           ELSE IF outcome = "transport" THEN "cannot post" ELSE "body"
    /\ gpc' = "returned"
    /\ UNCHANGED <<gin, greqs, gi>>
    /\ UNCHANGED nonHookVars

\* part_000:90-104: the signature of an installation event is checked when
\* HMAC is enabled; log.Fatal ends the process on a wrong signature.
GHmac ==
    /\ gpc = "dispatch"
    /\ gin.eventHeader # "push"
    /\ gpc' = CASE gin.hmac = "secretErr" -> "returned"
                [] gin.hmac = "invalid" -> "exited"
                [] OTHER -> "parse"
    /\ gret' = IF gin.hmac = "secretErr" THEN "secret error" ELSE gret
    /\ UNCHANGED <<gin, gcalls, greqs, gi>>
    /\ UNCHANGED nonHookVars

\* part_000:106-167: the payload is parsed and the action dispatched, up to
\* the call of garbageCollect.
GDispatch ==
    /\ gpc = "parse"
    /\ IF ~gin.parses
         THEN /\ gpc' = "returned"
              /\ gret' = "parse error"
              /\ UNCHANGED <<gcalls, greqs>>
         ELSE IF gin.action \in {"removed", "deleted"}
         THEN /\ greqs' = GarbageRequests(gin)
              /\ gpc' = "collect"
              /\ UNCHANGED <<gcalls, gret>>
         ELSE /\ gcalls' = IF gin.action \in {"created", "added"}
                             THEN Append(gcalls, GAudit("added repositories")) ELSE gcalls
              /\ gpc' = "returned"
              /\ gret' = "message received"
              /\ UNCHANGED greqs
    /\ UNCHANGED <<gin, gi>>
    /\ UNCHANGED nonHookVars

\* part_000:175-182: garbageCollect reads the payload secret; when that
\* fails it returns the error, which Handle drops (part_000:149, 164, 171).
GReadSecret ==
    /\ gpc = "collect"
    /\ \E ok \in BOOLEAN :
         /\ gcalls' = Append(gcalls, [op |-> "readSecret", ok |-> ok])
         /\ IF ok THEN /\ gpc' = "send"
                       /\ gi' = 1
                       /\ UNCHANGED gret
                  ELSE /\ gpc' = "returned"
                       /\ gret' = "message received"
                       /\ UNCHANGED gi
    /\ UNCHANGED <<gin, greqs>>
    /\ UNCHANGED nonHookVars

\* part_000:184-205: one signed POST per request; a transport failure ends
\* the loop, any status code lets it go on.
GSend ==
    /\ gpc = "send"
    /\ gi <= Len(greqs)
    /\ \E outcome \in {"transport", "202", "500"} :
         /\ gcalls' = Append(gcalls, [op |-> "gc", request |-> greqs[gi], outcome |-> outcome])
         /\ IF outcome = "transport"
              THEN /\ gpc' = "returned"
                   /\ gret' = "message received"
                   /\ UNCHANGED gi
              ELSE /\ gi' = gi + 1
                   /\ UNCHANGED <<gpc, gret>>
    /\ UNCHANGED <<gin, greqs>>
    /\ UNCHANGED nonHookVars

\* part_000:206 and 171
GReturn ==
    /\ gpc = "send"
    /\ gi > Len(greqs)
    /\ gpc' = "returned"
    /\ gret' = "message received"
    /\ UNCHANGED <<gin, gcalls, greqs, gi>>
    /\ UNCHANGED nonHookVars

NextHook ==
    \/ GCheckEvent
    \/ GCustomers
    \/ GForward
    \/ GHmac
    \/ GDispatch
    \/ GReadSecret
    \/ GSend
    \/ GReturn

(***************************************************************************)
(* Specifications.  Each takes one part of the program through its steps   *)
(* and leaves the other parts at rest.                                     *)
(***************************************************************************)
\* validImage applied to every string up to MaxImageLen.
InitStrings == IdleHook /\ IdleServer /\ InitValid /\ IdleRewrite /\ IdleHandle /\ IdleLog /\ IdleBuild
NextStrings == Validate
SpecValid == InitStrings /\ [][NextStrings]_vars

\* One run of the orchestrator.
Init == IdleHook /\ IdleServer /\ IdleValid /\ IdleRewrite /\ InitHandle /\ IdleLog /\ IdleBuild
Next == NextHandle
Spec == Init /\ [][Next]_vars

\* Concurrent producers appending to one build log.
InitProducers == IdleHook /\ IdleServer /\ IdleValid /\ IdleRewrite /\ IdleHandle /\ InitLog /\ IdleBuild
SpecLog == InitProducers /\ [][NextLog]_vars

\* getImageName applied to every prefix, replacement and rest within the bounds.
InitPrefixes == IdleHook /\ IdleServer /\ IdleValid /\ InitRewrite /\ IdleHandle /\ IdleLog /\ IdleBuild
NextRewrite == Rewrite
SpecRewrite == InitPrefixes /\ [][NextRewrite]_vars

\* The build service process.  The tasks and main are scheduled fairly and
\* a connection being served is served to its end; the signal and the
\* failures of the accept loop may or may not happen.
InitMain == InitServer /\ IdleHook /\ IdleValid /\ IdleRewrite /\ IdleHandle /\ IdleLog /\ IdleBuild
SpecServer ==
    /\ InitMain
    /\ [][NextServer]_vars
    /\ WF_vars(MStart)
    /\ WF_vars(WatcherWake)
    /\ WF_vars(WatcherReturn)
    /\ WF_vars(Listen)
    /\ WF_vars(ServeClosed)
    /\ WF_vars(ConnDone)
    /\ WF_vars(MJoin)

\* One webhook delivery.
InitDelivery ==
    InitHook /\ IdleServer /\ IdleValid /\ IdleRewrite /\ IdleHandle /\ IdleLog /\ IdleBuild
SpecHook == InitDelivery /\ [][NextHook]_vars

\* One request to the build service.
InitRequest == IdleHook /\ IdleServer /\ IdleValid /\ IdleRewrite /\ IdleHandle /\ IdleLog /\ InitBuild
SpecBuild == InitRequest /\ [][NextBuild]_vars

(***************************************************************************)
(* Properties.                                                             *)
(***************************************************************************)
Range(s) == {s[i] : i \in 1..Len(s)}

\* s matches imageValidator's pattern over its full length.
MatchesInFull(s) == (Len(s) + 1) \in Range(imageValidator(s, 1))

\* s is <reference>:<tag>, the reference matching the pattern in full.
TagChars == AlnumClass \cup SepChars
MatchesWithTag(s) ==
    \E k \in 1..Len(s) :
        /\ s[k] = ":"
        /\ k < Len(s)
        /\ MatchesInFull(SubSeq(s, 1, k - 1))
        /\ \A j \in (k + 1)..Len(s) : s[j] \in TagChars

\* registry[/namespace...]/name[:tag]
MatchesReference(s) == MatchesInFull(s) \/ MatchesWithTag(s)

\* C1: validImage accepts a string exactly when the whole string matches the
\* image-reference grammar (tag included); the empty string and strings with
\* a non-matching prefix or suffix are rejected.
C1_ValidImageIffReference ==
    vres # "none" => ((vres = "accept") <=> MatchesReference(image))

\* What validImage computes: it accepts the empty string and every string the
\* pattern (which has no tag part) matches in full, and nothing else.
ValidImageAsComputed ==
    vres # "none" => ((vres = "accept") <=> (image = <<>> \/ MatchesInFull(image)))

\* ---- the orchestrator ----
CallsWhere(P(_)) == {i \in 1..Len(calls) : P(calls[i])}
IsList(c) == c.op = "list"
IsUpsert(c) == c.op = "upsert"
IsAudit(c) == c.op = "audit"
IsStatus(c) == c.op = "reportStatus"
IsFailureStatus(c, stage) == IsStatus(c) /\ c.state = "failure" /\ c.context = stage
IsSuccessStatus(c) == IsStatus(c) /\ c.state = "success"
BuildFailed == calls # <<>> /\ calls[1].op = "build" /\ ~calls[1].ok
Ended == hpc \in {"returned", "exited"}

\* C2: after a list call that returned a function list, the create/update
\* request is a PUT when the descriptor's service name is the name of a
\* listed function and a POST when it is not, whatever the image and labels.
C2_UpsertByServiceName ==
    \A i \in CallsWhere(IsList), j \in CallsWhere(IsUpsert) :
        (i < j /\ calls[i].ok) =>
            calls[j].method =
                IF calls[j].deploy.Service \in calls[i].names THEN "PUT" ELSE "POST"

\* C2: an update was issued for a listed service whose list also held other names.
C2_Witness ==
    \E i \in CallsWhere(IsList), j \in CallsWhere(IsUpsert) :
        /\ calls[i].ok
        /\ calls[j].deploy.Service \in calls[i].names
        /\ Cardinality(calls[i].names) > 1
        /\ calls[j].method = "PUT"

ImageRejected ==
    /\ calls # <<>> /\ calls[1].op = "build" /\ calls[1].ok
    /\ env.repository_url # <<>> /\ env.push_repository_url # <<>>
    /\ ~validImage(TrimSpace(body))

\* C9: when the validator rejects the image name, the run records a failure
\* status for stage DEPLOY, emits an audit event for the failure, and makes
\* no list call and no create/update call.
C9_InvalidImageAudited ==
    (Ended /\ ImageRejected) =>
        /\ \E i \in CallsWhere(IsStatus) : IsFailureStatus(calls[i], "DEPLOY")
        /\ \E i \in CallsWhere(IsAudit) : calls[i].message.kind = "failure"
        /\ CallsWhere(IsList) = {} /\ CallsWhere(IsUpsert) = {}

\* C10: when the create/update call fails, the run records a failure status
\* for stage DEPLOY, emits an audit event carrying the error, and emits no
\* success audit event and no success status.
C10_DeployFailureAudited ==
    (Ended /\ deployErr # NoErr) =>
        /\ \E i \in CallsWhere(IsStatus) :
              IsFailureStatus(calls[i], "DEPLOY") /\ calls[i].desc = deployErr
        /\ \E i \in CallsWhere(IsAudit) :
              calls[i].message = [kind |-> "failure", detail |-> deployErr]
        /\ \A i \in CallsWhere(IsAudit) : calls[i].message.kind # "succeeded"
        /\ CallsWhere(IsSuccessStatus) = {}

\* ---- the build log ----
\* The callers whose Append has stored its line.
Stored == {p \in Callers : apc[p] \in {"unlock", "returned"}}

\* C5: the log holds as many lines as Append operations were performed, each
\* appended line exactly once; with every producer done it holds
\* NumProducers lines.
C5_AppendCount ==
    /\ Len(Line) = Cardinality(Stored)
    /\ \A p \in Stored : Cardinality({i \in 1..Len(Line) : Line[i] = amsg[p]}) = 1
    /\ (\A p \in Producers : apc[p] = "returned") => Len(Line) = NumProducers

\* C5: every producer has returned from Append.
C5_Witness == (\A p \in Producers : apc[p] = "returned") /\ Len(Line) = NumProducers

\* ---- the build service ----
Responded == bpc = "responded"
Failed == bret.err # NoErr

EventKeys(m) ==
    [i \in 1..Len(m.Vertexes) |-> <<"v:", m.Vertexes[i].Name>>]
    \o [i \in 1..Len(m.Statuses) |-> <<"s:", m.Statuses[i].ID>>]
    \o [i \in 1..Len(m.Logs) |-> <<"l:", m.Logs[i].Data>>]

EmittedKeys == Flatten([i \in 1..Len(emitted) |-> EventKeys(emitted[i])])
LineKeys(log) == [i \in 1..Len(log) |-> <<log[i].tag, log[i].id>>]

\* C4: the log of the result is the lines of the events the engine emitted
\* before the solve ended: one line per event, in emission order.
C4_LogIsEmittedEvents ==
    /\ (bpc \in {"handler", "responded"} /\ ~bret.dt.nil) =>
           LineKeys(bret.dt.result.Log) = EmittedKeys
    /\ Responded =>
           LineKeys(resp.body.result.Log) = EmittedKeys

\* C4: a failed solve has been answered with the lines of the events emitted.
C4_Witness ==
    /\ Responded /\ raised # <<>>
    /\ Len(emitted) = MaxEvents
    /\ Len(resp.body.result.Log) >= 3

\* C6: the join returns only when the solve task and the drain task have both
\* returned; the first error a task raised cancels the group's context, is
\* what the join returns, and decides the response.
C6_JoinSemantics ==
    /\ (bpc \in {"handler", "responded"} /\ solveReq.submitted) =>
          /\ spc = "done" /\ dpc = "done"
          /\ bret.err = IF raised = <<>> THEN NoErr ELSE Head(raised)
    /\ raised # <<>> => ctxDone
    /\ (Responded /\ solveReq.submitted) =>
          /\ resp.code = IF raised = <<>> THEN 200 ELSE 500
          /\ resp.body.result.Status.err = IF raised = <<>> THEN NoErr ELSE Head(raised)

\* C6: a solve failed after the drain task appended lines, and the join returned.
C6_Witness ==
    /\ bpc = "handler" /\ solveReq.submitted
    /\ raised # <<>> /\ Len(Line) > 0

\* C7: when solve and drain both complete without error, the response is 200
\* with status "success" and the config's target reference as image name.
C7_SuccessResult ==
    (Responded /\ spc = "done" /\ dpc = "done" /\ raised = <<>>) =>
        /\ resp.code = 200
        /\ ~resp.body.nil
        /\ resp.body.result.Status = [text |-> "success", err |-> NoErr]
        /\ resp.body.result.ImageName = archive.Ref

\* C7: a request for a reference with upper-case letters has succeeded.
C7_Witness ==
    /\ Responded /\ spc = "done" /\ dpc = "done" /\ raised = <<>>
    /\ archive.Ref # ToLower(archive.Ref)
    /\ solveReq.name = ToLower(archive.Ref)

\* ---- the orchestrator, continued ----
Is2xx(c) == IsUpsert(c) /\ ~c.outcome.failed /\ c.outcome.code >= 200 /\ c.outcome.code <= 299
IsSuccessAudit(c) == IsAudit(c) /\ c.message.kind = "succeeded"

\* C11: when the create/update call returns a 2xx response, the run emits
\* exactly one success audit event, whose message names the rewritten image,
\* and then reports one success status for stage DEPLOY, the audit first.
C11_SuccessAuditThenStatus ==
    \A j \in CallsWhere(Is2xx) :
        /\ \A i \in CallsWhere(IsAudit) :
              /\ i = j + 1
              /\ calls[i].message =
                    [kind |-> "succeeded",
                     image |-> env.repository_url
                               \o SubSeq(TrimSpace(body), Len(env.push_repository_url) + 1,
                                         Len(TrimSpace(body)))]
              /\ calls[i].message.image = calls[j].deploy.Image
        /\ \A i \in CallsWhere(IsStatus) :
              /\ i = j + 2
              /\ IsSuccessStatus(calls[i]) /\ calls[i].context = "DEPLOY"
              /\ CallsWhere(IsSuccessAudit) = {j + 1}
        /\ hpc = "returned" =>
              /\ Cardinality(CallsWhere(IsSuccessAudit)) = 1
              /\ Cardinality(CallsWhere(IsSuccessStatus)) = 1
        /\ hpc \in {"audit", "status", "returned"}

\* C11: a run whose update returned 204 has returned, the image rewritten.
C11_Witness ==
    /\ hpc = "returned"
    /\ \E j \in CallsWhere(Is2xx) :
          /\ calls[j].outcome.code = 204
          /\ calls[j].deploy.Image # TrimSpace(body)

\* C15: every secret name in the descriptor sent to the serving platform is
\* the owner's login, a hyphen and the trigger's name, in the trigger's
\* order and number.
C15_SecretsPrefixed ==
    \A j \in CallsWhere(IsUpsert) :
        LET sent  == calls[j].deploy.Secrets
            given == IF env.Http_Secrets.parses THEN env.Http_Secrets.names ELSE <<>>
        IN  /\ Len(sent) = Len(given)
            /\ \A i \in 1..Len(sent) :
                  /\ sent[i] = env.Http_Owner \o <<"-">> \o given[i]
                  /\ sent[i] # given[i]

\* C15: a descriptor with two secrets, one of which already began with the
\* owner's login, was sent.
C15_Witness ==
    \E j \in CallsWhere(IsUpsert) :
        /\ Len(calls[j].deploy.Secrets) = 2
        /\ env.Http_Secrets.names = << <<"a", "-", "s">>, <<"s">> >>
        /\ env.Http_Owner = <<"a">>

\* C17: a posted success status for stage DEPLOY and a success audit event
\* occur only after a create/update call of the same run that was answered
\* 2xx, whatever the build response body was.
C17_SuccessOnlyAfterDeploy ==
    \A i \in 1..Len(calls) :
        (\/ IsSuccessAudit(calls[i])
         \/ IsSuccessStatus(calls[i]) /\ calls[i].context = "DEPLOY"
                                      /\ calls[i].outcome = "posted")
            => \E j \in 1..(i - 1) : Is2xx(calls[j])

\* C18: every create/update call is preceded by a list call, and that list
\* call succeeded: a failed list call is followed by no create or update.
C18_UpsertOnlyAfterListed ==
    \A j \in CallsWhere(IsUpsert) :
        /\ \E i \in 1..(j - 1) : IsList(calls[i])
        /\ \A i \in 1..(j - 1) : IsList(calls[i]) => calls[i].ok

IsBuild(c) == c.op = "build"
IsPlatformCall(c) == IsBuild(c) \/ IsList(c) \/ IsUpsert(c)

\* No step is retried: each outbound call of the pipeline and the commit
\* status occur at most once in a run.
AtMostOnce ==
    /\ Cardinality(CallsWhere(IsBuild)) <= 1
    /\ Cardinality(CallsWhere(IsList)) <= 1
    /\ Cardinality(CallsWhere(IsUpsert)) <= 1
    /\ Cardinality(CallsWhere(IsStatus)) <= 1

\* BUILT before VALIDATED before DEPLOYED: the list call follows a build call
\* that answered with an accepted image name, the create/update follows the
\* list call.
DeployAfterValidated ==
    /\ \A i \in CallsWhere(IsList) :
          /\ \E k \in 1..(i - 1) : IsBuild(calls[k]) /\ calls[k].ok
          /\ validImage(TrimSpace(body))
    /\ \A j \in CallsWhere(IsUpsert) : \E i \in 1..(j - 1) : IsList(calls[i])

\* After FAILED no build, list or create/update call and no success status.
NothingAfterFailed ==
    \A i \in 1..Len(calls) :
        IsStatus(calls[i]) /\ calls[i].state = "failure"
           => \A k \in (i + 1)..Len(calls) :
                 ~IsPlatformCall(calls[k]) /\ ~IsSuccessStatus(calls[k])

\* DEPLOYED before REPORTED: the success status that ends a run follows a
\* create/update call answered 2xx.
ReportedAfterDeployed ==
    \A i \in CallsWhere(IsSuccessStatus) : \E j \in 1..(i - 1) : Is2xx(calls[j])

\* C13: a run passes RECEIVED, BUILT, VALIDATED, DEPLOYED, REPORTED in that
\* order only or leaves to FAILED; the build, list and create/update calls and
\* the commit status occur at most once; nothing of a later stage follows FAILED.
C13_StagesInOrder ==
    /\ AtMostOnce
    /\ DeployAfterValidated
    /\ NothingAfterFailed
    /\ ReportedAfterDeployed

\* With a registry prefix unset no deploy call is made and a run whose build
\* call succeeded halts instead of returning.
AbsentPrefixHalts ==
    (env.repository_url = <<>> \/ env.push_repository_url = <<>>) =>
        /\ CallsWhere(IsList) = {} /\ CallsWhere(IsUpsert) = {}
        /\ (Ended /\ ~BuildFailed) => hpc = "exited"

\* With the builder URL unset no call is made and the run does not return.
AbsentBuilderHalts ==
    env.builder_url = <<>> => calls = <<>> /\ hpc # "returned"

\* C14: when the builder URL or one of the two registry prefixes is unset,
\* the process halts; no build, deploy, status or audit call is attempted
\* with the absent endpoint.
C14_AbsentEndpointHalts == AbsentBuilderHalts /\ AbsentPrefixHalts

\* C16: getImageName(Q, P, P + R) is Q + R: the leading prefix P is replaced
\* by Q once and every occurrence of P in R stays as it was.
C16_PrefixReplacedOnce ==
    rewrite.done =>
        /\ rewrite.out = rewrite.Q \o rewrite.R
        /\ SubSeq(rewrite.out, Len(rewrite.Q) + 1, Len(rewrite.out)) = rewrite.R

\* C16: a name was rewritten whose rest contains the prefix again.
C16_Witness ==
    /\ rewrite.done
    /\ rewrite.P # <<>> /\ rewrite.Q # rewrite.P
    /\ Index(rewrite.R, rewrite.P) > 0

NotStatus(c) == ~IsStatus(c)

\* The calls of a run other than reportStatus, in order.
PrimaryCalls(cs) == SelectSeq(cs, NotStatus)

\* C12: two runs on the same inputs and responses that differ only in how
\* status reporting is configured and answered make the same build, list,
\* create/update and audit calls, stand at the same statement and return the
\* same value; a run that reported success has returned, and no call to the
\* build service or the serving platform follows a report.
C12_ReportingDoesNotInterfere ==
    /\ PrimaryCalls(calls) = PrimaryCalls(twin.calls)
    /\ hpc = twin.hpc
    /\ ret = twin.ret
    /\ \A i \in CallsWhere(IsStatus) :
          /\ \A k \in (i + 1)..Len(calls) : ~IsPlatformCall(calls[k])
          /\ IsSuccessStatus(calls[i]) => hpc = "returned" /\ ret.kind = "buildStatus"
          /\ calls[i].context = "BUILD" => hpc \in {"buildErrAudit", "returned"}

\* C12: a deployed run has returned in which minting the token failed while
\* the second run had status reporting disabled.
C12_Witness ==
    /\ hpc = "returned"
    /\ CallsWhere(Is2xx) # {}
    /\ twin.report_status = "false"
    /\ \E i \in CallsWhere(IsSuccessStatus) :
          calls[i].outcome = "tokenErr" /\ twin.calls[i].outcome = "disabled"

\* C19: a request whose config has an empty target reference never dials the
\* build engine and never submits a solve; no task runs, no event is emitted
\* or drained, the log stays empty; once the config has been read the request
\* fails with the error "no target reference to push" and is answered 500.
C19_EmptyRefFailsEarly ==
    archive.Ref = <<>> =>
        /\ ~solveReq.dialed /\ ~solveReq.submitted
        /\ bpc \notin {"connect", "spawn", "wait"}
        /\ spc = "idle" /\ dpc = "idle"
        /\ emitted = <<>> /\ ch = <<>> /\ pending = <<>>
        /\ Line = <<>>
        /\ bpc \in {"handler", "responded"} =>
              /\ bret.dt = NilBytes
              /\ bret.err \in {BuildErr(s) : s \in {"tempdir", "untar", "readfile",
                                                    "unmarshal", "noref"}}
              /\ cfgRef = <<>>
        /\ bpc = "responded" => resp.code = 500

\* C19: the request was refused for its empty reference and answered.
C19_Witness ==
    /\ archive.Ref = <<>>
    /\ bpc = "responded"
    /\ bret.err = BuildErr("noref")
    /\ resp.code = 500

\* C20: a request that created its working directory has removed it by the
\* time build returns, whatever the exit path; while the directory exists it
\* is the request's own, never the directory of a concurrent request, and a
\* request's removal leaves the directory of the concurrent request in place.
C20_WorkDirRemovedAndOwn ==
    /\ bpc \in {"handler", "responded"} => tmpdir \in {"none", "removed"}
    /\ bpc \in {"untar", "readfile", "refcheck", "connect", "spawn", "wait"} =>
          tmpdir = "present"
    /\ tmpdir = "none" <=> tmpname = 0
    /\ tmpdir = "present" =>
          /\ tmpname \in dirs
          /\ other.pc = "building" => other.name # tmpname
    /\ other.pc = "building" => other.name \in dirs

\* C20: a request was answered 200 and its directory is gone, while the
\* directory of a concurrent request that is still building exists.
C20_Witness ==
    /\ bpc = "responded" /\ resp.code = 200
    /\ tmpdir = "removed" /\ tmpname \notin dirs
    /\ other.pc = "building" /\ other.name \in dirs

\* C21: the archive is extracted with lchown applied only when the
\* enable_lchown setting explicitly enables it; with the setting unset or set
\* to another value, extraction runs with lchown disabled.
C21_LchownOnlyIfEnabled ==
    untarOpts.called =>
        /\ ~untarOpts.NoLchown => benv = "true"
        /\ benv \in {"unset", "false", "0"} => untarOpts.NoLchown

Terminated == mpc \in {"panicked", "returned"}

\* The process ends only when both tasks have returned, and a task that
\* returned has made the context done unless it returned without an error.
JoinedTasks ==
    /\ Terminated => lpc = "returned" /\ wpc = "returned" /\ sgRunning = 0
    /\ lpc = "returned" => sctx
    /\ wpc \in {"shutdown", "returned"} => shutting

IsGc(c) == c.op = "gc"
IsForward(c) == c.op = "forward"

\* The garbage-collection requests sent so far, in order.
GcSent == [i \in 1..Len(SelectSeq(gcalls, IsGc)) |-> SelectSeq(gcalls, IsGc)[i].request]

\* The delivery is an installation event that passed the customer check and
\* the signature check and whose payload parsed.
Dispatched ==
    /\ gin.eventHeader \in HandledEvents \ {"push"}
    /\ gin.customers \in {"off", "customer"}
    /\ gin.hmac \in {"off", "valid"}
    /\ gin.parses

\* No request for a payload with a wrong signature; an event of another
\* type is neither forwarded nor collected.
NoCollectUnlessAllowed ==
    /\ gin.hmac = "invalid" => GcSent = <<>>
    /\ gin.eventHeader \notin HandledEvents =>
          GcSent = <<>> /\ SelectSeq(gcalls, IsForward) = <<>>
    /\ \A i \in 1..Len(GcSent) : i <= Len(GarbageRequests(gin)) /\ GcSent[i] = GarbageRequests(gin)[i]

\* garbageCollect could read the payload secret and no POST failed at the
\* transport.
CollectUnhindered ==
    \A i \in 1..Len(gcalls) :
        /\ gcalls[i].op = "readSecret" => gcalls[i].ok
        /\ IsGc(gcalls[i]) => gcalls[i].outcome # "transport"

\* C23: a dispatched installation event with action "removed" has produced,
\* when Handle returns, one request per removed repository (owner the
\* account login, repo the repository's name, no functions) in list order,
\* and one with action "deleted" exactly one request with repo "*"; no
\* request is sent for a wrong signature, and an event of another type is
\* neither forwarded nor collected.
C23_GarbageRequestsSent ==
    /\ NoCollectUnlessAllowed
    /\ (gpc = "returned" /\ Dispatched /\ gin.action = "removed") =>
          GcSent = [i \in 1..Len(gin.removed) |-> GarbageRequest(gin.login, gin.removed[i])]
    /\ (gpc = "returned" /\ Dispatched /\ gin.action = "deleted") =>
          GcSent = <<GarbageRequest(gin.login, "*")>>

====
